---------------------------- MODULE Spec2Model ----------------------------
(***************************************************************************)
(* ScenicView: flight-geometry and solar-visibility pipeline.              *)
(*                                                                         *)
(* The module holds one state machine per component of the pipeline, each  *)
(* with its own specification over the shared variables:                   *)
(*   SpecSun   backend analyzeFlightSunConditions (sampling, classifier,   *)
(*             detectSunEvents loop, generateFlightSunReport)              *)
(*   SpecSeat  backend calculateSunPositions + getSeatRecommendation       *)
(*   SpecSide  event-based seat side: backend determineSeatSideFor* and    *)
(*             in-page determineSeatSuggestion / getSideSpecificViews      *)
(*   SpecClock in-page per-waypoint sun sample (clock-bucket classifier)   *)
(*   SpecBasic in-page generateBasicSunAnalysis                            *)
(*   SpecPath  backend calculateFlightPath                                 *)
(* Angles are carried in whole degrees, times in whole minutes unless a    *)
(* definition says otherwise.  Values the code obtains from trigonometry   *)
(* or from the solar ephemeris (SunCalc) are inputs drawn from small sets. *)
(***************************************************************************)
EXTENDS Integers, Sequences, FiniteSets, TLC

VARIABLES
    pc,             \* position of the running pipeline
    \* ---- backend enhanced analysis (enhancedSunAnalysisService.ts)
    totalMinutes,   \* duration * 60 (generateFlightSamplingPoints)
    sunAnalysis,    \* SunCondition[] produced by analyzeSunConditions
    i,              \* loop index of detectSunEvents (1-based here)
    events,         \* the events object of detectSunEvents
    report,         \* the FlightSunAnalysis of generateFlightSunReport
    \* ---- backend seat recommendation (sunPositionService.ts,
    \*      seatRecommendationService.ts)
    sunCalc,        \* SunCalc.getPosition results, one per waypoint
    sunPositions,   \* SunPosition[] returned by calculateSunPositions
    flightPath,     \* the path handed to getSeatRecommendation
    recommendation, \* the string getSeatRecommendation returns
    \* ---- event-based seat side (enhancedSunAnalysisService.ts, App.tsx)
    route,          \* the route: airports known?, atan2 term of its bearing
    enhancedAnalysis, \* the report whose flags drive the in-page functions
    backendSunrise, \* result of determineSeatSideForSunrise
    backendSunset,  \* result of determineSeatSideForSunset
    seatSuggestion, \* result of the in-page determineSeatSuggestion
    leftViews,      \* getSideSpecificViews(..., 'left', ...)
    rightViews,     \* getSideSpecificViews(..., 'right', ...)
    \* ---- classifySunCondition swept over the elevations
    sweepElevation, \* the elevation being classified
    sweepCondition, \* its condition
    prevCondition,  \* the condition of the elevation one degree below
    \* ---- in-page sun sample of one waypoint (App.tsx, sunPositions map)
    timeAtWaypoint, \* [hour, minute] of timeAtWaypoint
    random,         \* the draw of Math.random(), as random / RandomSteps
    sunPosition,    \* the SunPosition the callback returns
    \* ---- in-page generateBasicSunAnalysis (App.tsx)
    departureTime,  \* [hour, minute] of departureTime
    flightDuration, \* minutes
    basicAnalysis,  \* the EnhancedSunAnalysis returned
    \* ---- backend calculateFlightPath (flightPathService.ts)
    fromAirport,    \* requested departure code
    toAirport,      \* requested arrival code
    distance,       \* great-circle distance of the route, whole km
    waypoints,      \* Waypoint[] returned
    pathStatus,     \* "none", "ok" (returned) or "throws"
    \* ---- the two great-circle interpolators
    from,           \* the from point
    to,             \* the to point
    fraction,       \* fraction * FractionSteps
    interpolated,   \* what interpolateGreatCircle returned
    greatCircle,    \* what calculateGreatCircle returned
    \* ---- backend routeHandler
    request,        \* req.query
    env,            \* what geometry and solar engine give for the request
    response,       \* the response sent
    calls,          \* the services called, in order
    \* ---- two in-page invocations on the same inputs
    invocationTime, \* [hour, minute] at which the waypoint is reached
    draws,          \* the value of Math.random() in each invocation
    samples,        \* the SunPosition each invocation returned
    \* ---- App component (App.tsx)
    currentPage,    \* "SEARCH", "RESULTS" or "EXPERIENCE"
    form,           \* fromAirport, toAirport, departureTime, flightDuration
    flightData,     \* FlightData | null
    error,          \* string | null, "" being null
    loading         \* boolean

varsSun == <<totalMinutes, sunAnalysis, i, events, report>>

varsSeat == <<sunCalc, sunPositions, flightPath, recommendation>>

varsSide == <<route, enhancedAnalysis, backendSunrise, backendSunset,
              seatSuggestion, leftViews, rightViews>>

varsSweep == <<sweepElevation, sweepCondition, prevCondition>>

varsClock == <<timeAtWaypoint, random, sunPosition>>

varsBasic == <<departureTime, flightDuration, basicAnalysis>>

varsPath == <<fromAirport, toAirport, distance, waypoints, pathStatus>>

varsCircle == <<from, to, fraction, interpolated, greatCircle>>

varsHandler == <<request, env, response, calls>>

varsTwice == <<invocationTime, draws, samples>>

varsApp == <<currentPage, form, flightData, error, loading>>

vars == <<pc, varsSun, varsSeat, varsSide, varsSweep, varsClock, varsBasic,
          varsPath, varsCircle, varsHandler, varsTwice, varsApp>>

\* what the actions of one specification leave unchanged
othersSun ==
    <<varsSeat, varsSide, varsSweep, varsClock,
      varsBasic, varsPath, varsCircle, varsHandler,
      varsTwice, varsApp>>

othersSeat ==
    <<varsSun, varsSide, varsSweep, varsClock,
      varsBasic, varsPath, varsCircle, varsHandler,
      varsTwice, varsApp>>

othersSide ==
    <<varsSun, varsSeat, varsSweep, varsClock,
      varsBasic, varsPath, varsCircle, varsHandler,
      varsTwice, varsApp>>

othersSweep ==
    <<varsSun, varsSeat, varsSide, varsClock,
      varsBasic, varsPath, varsCircle, varsHandler,
      varsTwice, varsApp>>

othersClock ==
    <<varsSun, varsSeat, varsSide, varsSweep,
      varsBasic, varsPath, varsCircle, varsHandler,
      varsTwice, varsApp>>

othersBasic ==
    <<varsSun, varsSeat, varsSide, varsSweep,
      varsClock, varsPath, varsCircle, varsHandler,
      varsTwice, varsApp>>

othersPath ==
    <<varsSun, varsSeat, varsSide, varsSweep,
      varsClock, varsBasic, varsCircle, varsHandler,
      varsTwice, varsApp>>

othersCircle ==
    <<varsSun, varsSeat, varsSide, varsSweep,
      varsClock, varsBasic, varsPath, varsHandler,
      varsTwice, varsApp>>

othersHandler ==
    <<varsSun, varsSeat, varsSide, varsSweep,
      varsClock, varsBasic, varsPath, varsCircle,
      varsTwice, varsApp>>

othersTwice ==
    <<varsSun, varsSeat, varsSide, varsSweep,
      varsClock, varsBasic, varsPath, varsCircle,
      varsHandler, varsApp>>

othersApp ==
    <<varsSun, varsSeat, varsSide, varsSweep,
      varsClock, varsBasic, varsPath, varsCircle,
      varsHandler, varsTwice>>

----------------------------------------------------------------------------
(* Shared arithmetic *)

Max(a, b) == IF a >= b THEN a ELSE b

\* JavaScript's % on integers: the remainder takes the sign of the dividend.
JsRem(a, b) == IF a >= 0 THEN a % b ELSE -((-a) % b)

----------------------------------------------------------------------------
(* Bounds of the model *)

\* detectSunEvents is run on up to MaxIntervals + 1 samples
MaxIntervals == 5

\* getSeatRecommendation is run on up to MaxSunPositions sun positions
MaxSunPositions == 2

\* ... and on flight paths of 0..MaxPathLength points
MaxPathLength == 2

\* Math.random() is one of 0/RandomSteps, ..., (RandomSteps-1)/RandomSteps
RandomSteps == 4

\* generateBasicSunAnalysis is run on the durations 30, 30 + DurationStep,
\* ... and 1440
DurationStep == 30

\* calculateFlightPath is run on routes of up to MaxDistanceKm km
MaxDistanceKm == 420

\* the interpolators are run on the fractions 0/FractionSteps, ...,
\* FractionSteps/FractionSteps
FractionSteps == 4

----------------------------------------------------------------------------
(* enhancedSunAnalysisService.ts *)

intervalMinutes == 15

\* Elevations (degrees) the solar engine may report for a sample: below the
\* horizon, exactly on it, golden hour, daylight.
Elevations == {-5, 0, 8, 20}

\* Durations handed to generateFlightSamplingPoints, in minutes: a negative
\* one, whole multiples of the sampling interval and durations ending 10
\* minutes after a sample.
TotalMinutesSamples ==
    {-intervalMinutes}
    \cup {intervalMinutes * k : k \in 1..MaxIntervals}
    \cup {intervalMinutes * k + 10 : k \in 0..(MaxIntervals - 1)}

NULL == [time |-> -1, progressPercent |-> <<-1, 1>>]

\* generateFlightSamplingPoints: the minute offsets 0, 15, 30, ... <= total
SamplingMinutes(total) ==
    {m \in 0..Max(total, 0) : m <= total /\ m % intervalMinutes = 0}

\* classifySunCondition with the TWILIGHT limit made inclusive
classifySunConditionInclusive(elevation) ==
    IF elevation < 0 THEN "NIGHT"
    ELSE IF elevation <= 6 THEN "TWILIGHT"
    ELSE IF elevation < 10 THEN "GOLDEN_HOUR"
    ELSE "DAYLIGHT"

classifySunCondition(elevation) ==
    IF elevation < 0 THEN "NIGHT"
    ELSE IF elevation < 6 THEN "TWILIGHT"
    ELSE IF elevation < 10 THEN "GOLDEN_HOUR"
    ELSE "DAYLIGHT"

\* One SunCondition of the timeline: sample k (1-based) taken `minutes' after
\* departure; progressPercent is the exact ratio <<numerator, denominator>>.
SunConditionAt(k, total, elevation) ==
    [time            |-> (k - 1) * intervalMinutes,
     sunElevation    |-> elevation,
     condition       |-> classifySunCondition(elevation),
     progressPercent |-> <<(k - 1) * intervalMinutes * 100, total>>]

InitEvents ==
    [sunrise |-> NULL, sunset |-> NULL,
     willSeeNight |-> FALSE, willSeeSunrise |-> FALSE,
     willSeeSunset |-> FALSE, willSeeGoldenHour |-> FALSE,
     nightMinutes |-> 0, dayMinutes |-> 0, goldenHourMinutes |-> 0]

NoReport == [built |-> FALSE]

\* TallyCondition with the TWILIGHT branch dropped
TallyConditionNoTwilight(ev, condition) ==
    IF condition = "NIGHT"
    THEN [ev EXCEPT !.willSeeNight = TRUE,
                    !.nightMinutes = @ + intervalMinutes]
    ELSE IF condition = "DAYLIGHT"
    THEN [ev EXCEPT !.dayMinutes = @ + intervalMinutes]
    ELSE IF condition = "GOLDEN_HOUR"
    THEN [ev EXCEPT !.willSeeGoldenHour = TRUE,
                    !.goldenHourMinutes = @ + intervalMinutes]
    ELSE ev

\* TallyCondition with GOLDEN_HOUR samples counted as day
TallyConditionGoldenAsDay(ev, condition) ==
    IF condition = "NIGHT" \/ condition = "TWILIGHT"
    THEN [ev EXCEPT !.willSeeNight = TRUE,
                    !.nightMinutes = @ + intervalMinutes]
    ELSE IF condition = "DAYLIGHT" \/ condition = "GOLDEN_HOUR"
    THEN [ev EXCEPT !.dayMinutes = @ + intervalMinutes]
    ELSE ev

\* detectSunEvents, lines 215-227: count the duration of the sample's condition
TallyCondition(ev, condition) ==
    IF condition = "NIGHT"
    THEN [ev EXCEPT !.willSeeNight = TRUE,
                    !.nightMinutes = @ + intervalMinutes]
    ELSE IF condition = "DAYLIGHT"
    THEN [ev EXCEPT !.dayMinutes = @ + intervalMinutes]
    ELSE IF condition = "GOLDEN_HOUR"
    THEN [ev EXCEPT !.willSeeGoldenHour = TRUE,
                    !.goldenHourMinutes = @ + intervalMinutes]
    ELSE IF condition = "TWILIGHT"
    THEN [ev EXCEPT !.willSeeNight = TRUE,
                    !.nightMinutes = @ + intervalMinutes]
    ELSE ev

\* the SunEvent built from the current sample (lines 235-242, 249-256)
SunEventOf(current) ==
    [time |-> current.time, progressPercent |-> current.progressPercent]

\* DetectSunrise with the crossing placed at the end of the golden hour
DetectSunriseAtGoldenHour(ev, prev, current) ==
    IF prev.sunElevation <= 8 /\ current.sunElevation > 8
    THEN [ev EXCEPT !.sunrise = SunEventOf(current), !.willSeeSunrise = TRUE]
    ELSE ev

\* detectSunEvents, lines 233-245: sunrise transition between prev and current
DetectSunrise(ev, prev, current) ==
    IF prev.sunElevation <= 0 /\ current.sunElevation > 0
    THEN [ev EXCEPT !.sunrise = SunEventOf(current), !.willSeeSunrise = TRUE]
    ELSE ev

\* detectSunEvents, lines 247-259: sunset transition between prev and current
DetectSunset(ev, prev, current) ==
    IF prev.sunElevation > 0 /\ current.sunElevation <= 0
    THEN [ev EXCEPT !.sunset = SunEventOf(current), !.willSeeSunset = TRUE]
    ELSE ev

\* one iteration of the loop of detectSunEvents on sample k of analysis
DetectIteration(ev, analysis, k) ==
    LET tallied == TallyCondition(ev, analysis[k].condition)
    IN  IF k > 1
        THEN DetectSunset(DetectSunrise(tallied, analysis[k - 1], analysis[k]),
                          analysis[k - 1], analysis[k])
        ELSE tallied

\* (bearing + 360) % 360 applied to atan2(y, x) * 180 / PI, which lies in
\* -180..180
calculateBearing(atan2Deg) == (atan2Deg + 360) % 360

\* determineSeatSideForSunrise with the second quadrant open at 45
determineSeatSideForSunriseGap(bearing) ==
    IF bearing >= 315 \/ bearing < 45 THEN "right"
    ELSE IF bearing > 45 /\ bearing < 135 THEN "right"
    ELSE IF bearing >= 135 /\ bearing < 225 THEN "left"
    ELSE IF bearing >= 225 /\ bearing < 315 THEN "left"
    ELSE "either"

determineSeatSideForSunrise(bearing) ==
    IF bearing >= 315 \/ bearing < 45 THEN "right"
    ELSE IF bearing >= 45 /\ bearing < 135 THEN "right"
    ELSE IF bearing >= 135 /\ bearing < 225 THEN "left"
    ELSE IF bearing >= 225 /\ bearing < 315 THEN "left"
    ELSE "either"

determineSeatSideForSunset(bearing) ==
    IF bearing >= 315 \/ bearing < 45 THEN "left"
    ELSE IF bearing >= 45 /\ bearing < 135 THEN "left"
    ELSE IF bearing >= 135 /\ bearing < 225 THEN "right"
    ELSE IF bearing >= 225 /\ bearing < 315 THEN "right"
    ELSE "either"

\* a templated line of report.summary or report.recommendations
Line(tag, arg) == [line |-> tag, arg |-> arg]

\* Math.round(minutes / 60 * 10): tenths of hours, for minutes >= 0
RoundTenthsOfHours(minutes) == (minutes * 10 + 30) \div 60

\* generateFlightSunReport, lines 303-319: the forced night of a flight with
\* both a sunrise and a sunset; it is written to events, not to report
ForceNight(ev) ==
    IF ev.willSeeNight THEN ev
    ELSE IF ev.sunset # NULL /\ ev.sunrise # NULL
    THEN [ev EXCEPT !.willSeeNight = TRUE,
                    !.nightMinutes = Max(0, ev.sunrise.time - ev.sunset.time)]
    ELSE [ev EXCEPT !.willSeeNight = TRUE,
                    !.nightMinutes = 90]

SeatRecommendationLine(side) ==
    IF side = "right" THEN "RIGHT (E, F)" ELSE "LEFT (A, B)"

\* generateFlightSunReport: the events object as the function leaves it and
\* the report it returns; bearing is the route's bearing in [0, 360)
generateFlightSunReport(ev0, analysis, bearing) ==
    LET both    == ev0.willSeeSunrise /\ ev0.willSeeSunset
        ev      == IF both THEN ForceNight(ev0) ELSE ev0
        seat    == IF both THEN "either"
                   ELSE IF ev0.willSeeSunrise
                   THEN determineSeatSideForSunrise(bearing)
                   ELSE IF ev0.willSeeSunset
                   THEN determineSeatSideForSunset(bearing)
                   ELSE "either"
        nightT  == RoundTenthsOfHours(ev.nightMinutes)
        s1 == IF both
              THEN <<Line("BOTH", 0),
                     Line("SUNRISE_AT", ev.sunrise.time),
                     Line("SUNSET_AT", ev.sunset.time)>>
                   \o (IF ev.willSeeNight
                       THEN <<Line("NIGHT_ALSO", nightT)>> ELSE <<>>)
              ELSE IF ev.willSeeSunrise
              THEN <<Line("SUNRISE_WILL", ev.sunrise.time)>>
              ELSE IF ev.willSeeSunset
              THEN <<Line("SUNSET_WILL", ev.sunset.time)>>
              ELSE <<>>
        s2 == IF ev.willSeeNight THEN <<Line("NIGHT", nightT)>> ELSE <<>>
        s3 == IF ev.willSeeGoldenHour
              THEN <<Line("GOLDEN",
                          RoundTenthsOfHours(ev.goldenHourMinutes))>>
              ELSE <<>>
        s4 == IF ~ev.willSeeSunrise /\ ~ev.willSeeSunset /\ ~ev.willSeeNight
              THEN <<Line("DAYLIGHT", 0)>> ELSE <<>>
        r1 == IF both THEN <<Line("RARE_TREAT", "")>>
              ELSE IF ev.willSeeSunrise
              THEN <<Line("SUNRISE_SIDE", SeatRecommendationLine(seat))>>
              ELSE IF ev.willSeeSunset
              THEN <<Line("SUNSET_SIDE", SeatRecommendationLine(seat))>>
              ELSE <<>>
        r2 == IF ev.willSeeNight THEN <<Line("NIGHT_PHOTO", "")>> ELSE <<>>
        r4 == IF ~ev.willSeeSunrise /\ ~ev.willSeeSunset /\ ~ev.willSeeNight
              THEN <<Line("SCENIC", "")>> ELSE <<>>
        r5 == IF ev.willSeeSunrise \/ ev.willSeeSunset
              THEN <<Line("CAMERA", ""), Line("CHECK_IN", "")>> ELSE <<>>
    IN  [events |-> ev,
         report |->
            [built             |-> TRUE,
             willSeeSunrise    |-> ev0.willSeeSunrise,
             willSeeSunset     |-> ev0.willSeeSunset,
             willSeeNight      |-> ev0.willSeeNight,
             willSeeGoldenHour |-> ev0.willSeeGoldenHour,
             sunrise           |-> ev0.sunrise,
             sunset            |-> ev0.sunset,
             summary           |-> s1 \o s2 \o s3 \o s4,
             recommendations   |-> r1 \o r2 \o r4 \o r5,
             seatSuggestion    |-> seat,
             timeline          |-> analysis,
             nightDuration     |-> ev0.nightMinutes,
             dayDuration       |-> ev0.dayMinutes]]

\* atan2 results (degrees) of the routes analysed
RouteAtan2Samples == {-180, -135, -90, -46, -45, 0, 44, 45, 90, 134, 135, 180}

----------------------------------------------------------------------------
(* sunPositionService.ts, seatRecommendationService.ts *)

\* Azimuths SunCalc reports, in degrees: measured from South, positive
\* towards West, in (-180, 180]
SunCalcAzimuths == {-135, -90, 0, 45, 180}

\* Altitudes SunCalc reports, in degrees
SunCalcAltitudes == {-5, 0, 40, 80}

RECURSIVE SumAzimuth(_)
SumAzimuth(positions) ==
    IF positions = <<>> THEN 0
    ELSE Head(positions).azimuth + SumAzimuth(Tail(positions))

\* calculateSunPositions: radians to degrees, nothing else
calculateSunPositions(positions) ==
    [k \in 1..Len(positions) |->
        [azimuth   |-> positions[k].azimuth,
         elevation |-> positions[k].altitude]]

\* IsVisible without the upper limit of the filter
IsVisibleNoUpperLimit(pos) == pos.elevation > 0

IsVisible(pos) == pos.elevation > 0 /\ pos.elevation < 80

VisibleSunPositions(positions) == SelectSeq(positions, IsVisible)

\* normalizedSunAzimuth * n, for the n = Len(visible) > 0 visible positions:
\* avgAzimuth = sum / n, then ((avgAzimuth % 360) + 360) % 360
NormalizedSunAzimuthTimesN(visible) ==
    LET n == Len(visible)
    IN  JsRem(JsRem(SumAzimuth(visible), 360 * n) + 360 * n, 360 * n)

\* relativeSunPosition * n (lines 48-50)
RelativeSunPositionTimesN(visible, flightBearing) ==
    LET n  == Len(visible)
        r0 == NormalizedSunAzimuthTimesN(visible) - flightBearing * n
        r1 == IF r0 < 0 THEN r0 + 360 * n ELSE r0
    IN  IF r1 > 360 * n THEN r1 - 360 * n ELSE r1

getSeatRecommendation(positions, path) ==
    LET visible == VisibleSunPositions(positions)
    IN  IF Len(visible) = 0 THEN "NO_OPTIMAL_WINDOW_SEAT"
        ELSE IF path.length < 2 THEN "UNABLE_TO_DETERMINE_DIRECTION"
        ELSE LET n   == Len(visible)
                 rel == RelativeSunPositionTimesN(
                            visible, calculateBearing(path.atan2Deg))
             IN  IF rel >= 0 /\ rel <= 180 * n THEN "left" ELSE "right"

\* a path of the given number of points; atan2Deg is the atan2 term of the
\* bearing from its first to its last point
FlightPaths ==
    {[length |-> n, atan2Deg |-> 0] : n \in 0..1}
    \cup {[length |-> n, atan2Deg |-> a] :
             n \in 2..MaxPathLength,
             a \in {-180, -135, -90, -1, 0, 45, 90, 180}}

SunCalcResults ==
    UNION {[1..n -> [azimuth : SunCalcAzimuths, altitude : SunCalcAltitudes]] :
              n \in 0..MaxSunPositions}

----------------------------------------------------------------------------
(* App.tsx: determineSeatSuggestion, getSideSpecificViews *)

\* in-page determineSeatSuggestion; known: both airports are in AIRPORTS
determineSeatSuggestion(known, flightBearing, willSeeSunrise, willSeeSunset) ==
    IF ~known THEN "either"
    ELSE IF willSeeSunrise
    THEN LET relativeSunPosition == JsRem((90 - flightBearing) + 360, 360)
         IN  IF relativeSunPosition >= 270 \/ relativeSunPosition <= 90
             THEN "left" ELSE "right"
    ELSE IF willSeeSunset
    THEN LET relativeSunPosition == JsRem((270 - flightBearing) + 360, 360)
         IN  IF relativeSunPosition >= 270 \/ relativeSunPosition <= 90
             THEN "left" ELSE "right"
    ELSE "either"

\* VisibleFromSide with the right side's limits made inclusive
VisibleFromSideInclusive(side, rel) ==
    IF side = "left" THEN rel >= 270 \/ rel <= 90
    ELSE rel >= 90 /\ rel <= 270

\* getSideSpecificViews, lines 1577-1581 and 1592-1596: is an event at
\* relative position rel visible from side?
VisibleFromSide(side, rel) ==
    IF side = "left" THEN rel >= 270 \/ rel <= 90
    ELSE rel > 90 /\ rel < 270

Views(sunrise, sunset, night) ==
    [computed |-> TRUE, sunrise |-> sunrise, sunset |-> sunset,
     night |-> night]

NoViews == [computed |-> FALSE]

getSideSpecificViews(known, flightBearing, side, analysis) ==
    IF ~analysis.built THEN Views(FALSE, FALSE, FALSE)
    ELSE IF ~known
    THEN Views(analysis.willSeeSunrise, analysis.willSeeSunset,
               analysis.willSeeNight)
    ELSE LET sunriseVisible ==
                 IF analysis.willSeeSunrise
                 THEN VisibleFromSide(side,
                          JsRem((90 - flightBearing) + 360, 360))
                 ELSE FALSE
             sunsetVisible ==
                 IF analysis.willSeeSunset
                 THEN VisibleFromSide(side,
                          JsRem((270 - flightBearing) + 360, 360))
                 ELSE FALSE
             nightVisible ==
                 IF analysis.willSeeSunrise /\ analysis.willSeeSunset
                    /\ ~analysis.willSeeNight
                 THEN TRUE ELSE analysis.willSeeNight
         IN  Views(sunriseVisible, sunsetVisible, nightVisible)

\* the routes: unknown airports, or known ones with any atan2 term
Routes ==
    {[known |-> FALSE, atan2Deg |-> 0]}
    \cup {[known |-> TRUE, atan2Deg |-> a] : a \in -180..180}

\* the flags of a report, or no report
AnalysisFlags ==
    {NoReport}
    \cup [built : {TRUE}, willSeeSunrise : BOOLEAN, willSeeSunset : BOOLEAN,
          willSeeNight : BOOLEAN]

----------------------------------------------------------------------------
(* App.tsx: the sunPositions callback of generateSimplifiedFlightAnalysis *)

GOLDEN_HOUR_BEFORE_SUNRISE_START == 4 * 60
GOLDEN_HOUR_BEFORE_SUNRISE_END == 4 * 60 + 59
SUNRISE_START == 5 * 60
SUNRISE_END == 8 * 60
SUN_VISIBLE_START == 8 * 60 + 1
SUN_VISIBLE_END == 17 * 60
GOLDEN_HOUR_BEFORE_SUNSET_START == 17 * 60 + 1
GOLDEN_HOUR_BEFORE_SUNSET_END == 17 * 60 + 59
SUNSET_START == 18 * 60
SUNSET_END == 19 * 60
NIGHT_START == 19 * 60 + 1
NIGHT_END == 3 * 60 + 59

\* isTimeInRange without the overnight branch
isTimeInRangeNoWrap(time, start, end) == time >= start /\ time <= end

isTimeInRange(time, start, end) ==
    IF start <= end THEN time >= start /\ time <= end
    ELSE time >= start \/ time <= end

\* the branch of the if-chain of lines 1217-1238 taken for timeInMinutes
ClockBranch(timeInMinutes) ==
    IF isTimeInRange(timeInMinutes, SUNRISE_START, SUNRISE_END) THEN 1
    ELSE IF isTimeInRange(timeInMinutes, GOLDEN_HOUR_BEFORE_SUNRISE_START,
                          GOLDEN_HOUR_BEFORE_SUNRISE_END) THEN 2
    ELSE IF isTimeInRange(timeInMinutes, SUNSET_START, SUNSET_END) THEN 3
    ELSE IF isTimeInRange(timeInMinutes, GOLDEN_HOUR_BEFORE_SUNSET_START,
                          GOLDEN_HOUR_BEFORE_SUNSET_END) THEN 4
    ELSE IF isTimeInRange(timeInMinutes, SUN_VISIBLE_START, SUN_VISIBLE_END)
    THEN 5
    ELSE IF isTimeInRange(timeInMinutes, NIGHT_START, NIGHT_END) THEN 6
    ELSE 7

\* the condition each branch assigns; branch 7 is the fallback
BranchCondition(branch) ==
    CASE branch = 1 -> "SUNRISE"
      [] branch = 2 -> "GOLDEN_HOUR_BEFORE_SUNRISE"
      [] branch = 3 -> "SUNSET"
      [] branch = 4 -> "GOLDEN_HOUR_BEFORE_SUNSET"
      [] branch = 5 -> "DAYLIGHT"
      [] branch = 6 -> "NIGHT"
      [] OTHER -> "DAYLIGHT"

\* lines 1173-1177: the elevation for the hour and the draw r/RandomSteps,
\* as the exact ratio <<numerator, denominator>>
SimplifiedElevation(hour, r) ==
    IF hour >= 6 /\ hour <= 8 THEN <<r * 10, RandomSteps>>
    ELSE IF hour >= 18 /\ hour <= 20 THEN <<r * 10, RandomSteps>>
    ELSE IF hour >= 9 /\ hour <= 17
    THEN <<30 * RandomSteps + r * 40, RandomSteps>>
    ELSE <<-10 * RandomSteps - r * 20, RandomSteps>>

\* the SunPosition of a waypoint reached at hour:minute (position, time
\* string and display azimuth are not carried)
SunPositionAt(hour, minute, r) ==
    [computed  |-> TRUE,
     elevation |-> SimplifiedElevation(hour, r),
     condition |-> BranchCondition(ClockBranch(hour * 60 + minute))]

NoSunPosition == [computed |-> FALSE]

----------------------------------------------------------------------------
(* App.tsx: generateBasicSunAnalysis *)

\* checkTimeOverlap of a flight leaving at minute depTimeMinutes of the day
\* and lasting duration minutes
checkTimeOverlap(depTimeMinutes, duration, startMinutes, endMinutes) ==
    LET flightEndMinutes == depTimeMinutes + duration
    IN  IF startMinutes > endMinutes
        THEN LET startsInNight == depTimeMinutes >= startMinutes
                 endsInNight ==
                     flightEndMinutes > 24 * 60
                     /\ flightEndMinutes - 24 * 60 <= endMinutes
                 crossesMidnight == flightEndMinutes > 24 * 60
             IN  startsInNight \/ (crossesMidnight /\ endsInNight)
        ELSE IF flightEndMinutes <= 24 * 60
        THEN depTimeMinutes <= endMinutes /\ flightEndMinutes >= startMinutes
        ELSE LET overlapBeforeMidnight ==
                     depTimeMinutes <= endMinutes /\ 24 * 60 >= startMinutes
                 overlapAfterMidnight ==
                     flightEndMinutes - 24 * 60 >= startMinutes
                     /\ startMinutes >= 0
             IN  overlapBeforeMidnight \/ overlapAfterMidnight

\* calculateNightHours * 60: minutes
calculateNightMinutes(depHour, arrHour) ==
    LET dep == IF depHour >= 22 \/ depHour <= 6 THEN 60 ELSE 0
        arr == IF arrHour >= 22 \/ arrHour <= 6 THEN 60 ELSE 0
    IN  Max(dep + arr, 30)

\* generateBasicSunAnalysis for a route (known airports, bearing), a
\* departure at depHour:depMinute and a duration in minutes
generateBasicSunAnalysis(known, flightBearing, depHour, depMinute, duration) ==
    LET depTimeMinutes == depHour * 60 + depMinute
        arrHour == ((depTimeMinutes + duration) \div 60) % 24
        overlap(start, end) ==
            checkTimeOverlap(depTimeMinutes, duration, start, end)
        willSeeSunrise == overlap(SUNRISE_START, SUNRISE_END)
        willSeeSunset == overlap(SUNSET_START, SUNSET_END)
        willSeeNight == overlap(NIGHT_START, NIGHT_END)
        willSeeSunVisible == overlap(SUN_VISIBLE_START, SUN_VISIBLE_END)
        willSeeGoldenHourBeforeSunrise ==
            overlap(GOLDEN_HOUR_BEFORE_SUNRISE_START,
                    GOLDEN_HOUR_BEFORE_SUNRISE_END)
        willSeeGoldenHourBeforeSunset ==
            overlap(GOLDEN_HOUR_BEFORE_SUNSET_START,
                    GOLDEN_HOUR_BEFORE_SUNSET_END)
        willSeeGoldenHour ==
            willSeeGoldenHourBeforeSunrise \/ willSeeGoldenHourBeforeSunset
        nightMinutes == calculateNightMinutes(depHour, arrHour)
        s1 == IF willSeeSunrise THEN <<Line("SUNRISE_WILL", 0)>> ELSE <<>>
        s2 == IF willSeeSunset THEN <<Line("SUNSET_WILL", 0)>> ELSE <<>>
        s3 == IF willSeeSunrise /\ willSeeSunset
              THEN <<Line("BOTH", 0)>> ELSE <<>>
        s4 == IF willSeeGoldenHourBeforeSunrise
              THEN <<Line("GOLDEN_BEFORE_SUNRISE", 0)>>
              ELSE IF willSeeGoldenHourBeforeSunset
              THEN <<Line("GOLDEN_BEFORE_SUNSET", 0)>>
              ELSE <<>>
        s5 == IF willSeeNight THEN <<Line("NIGHT", nightMinutes)>> ELSE <<>>
        s6 == IF willSeeSunVisible /\ ~willSeeSunrise /\ ~willSeeSunset
              THEN <<Line("DAYLIGHT", 0)>> ELSE <<>>
        r1 == IF willSeeSunrise THEN <<Line("EAST_SIDE", "")>> ELSE <<>>
        r2 == IF willSeeSunset THEN <<Line("WEST_SIDE", "")>> ELSE <<>>
        r3 == IF willSeeSunrise /\ willSeeSunset
              THEN <<Line("RARE_TREAT", "")>> ELSE <<>>
        r5 == IF willSeeNight THEN <<Line("NIGHT_PHOTO", "")>> ELSE <<>>
        r6 == IF willSeeSunVisible /\ ~willSeeSunrise /\ ~willSeeSunset
              THEN <<Line("SCENIC", "")>> ELSE <<>>
        r7 == IF willSeeSunrise \/ willSeeSunset \/ willSeeGoldenHour
              THEN <<Line("CAMERA", "")>> ELSE <<>>
    IN  [built             |-> TRUE,
         willSeeSunrise    |-> willSeeSunrise,
         willSeeSunset     |-> willSeeSunset,
         willSeeNight      |-> willSeeNight,
         willSeeGoldenHour |-> willSeeGoldenHour,
         summary           |-> s1 \o s2 \o s3 \o s4 \o s5 \o s6,
         recommendations   |-> r1 \o r2 \o r3 \o r5 \o r6 \o r7,
         seatSuggestion    |->
             determineSeatSuggestion(known, flightBearing,
                                     willSeeSunrise, willSeeSunset),
         timeline          |-> <<>>,
         nightDuration     |-> IF willSeeNight THEN nightMinutes ELSE 0,
         dayDuration       |->
             duration - (IF willSeeNight THEN nightMinutes ELSE 0)]

\* the durations handleSubmit accepts (30..1440 minutes), sampled
FlightDurations ==
    {d \in 30..(24 * 60) : (d - 30) % DurationStep = 0} \cup {24 * 60}

----------------------------------------------------------------------------
(* flightPathService.ts *)

\* the codes of the AIRPORTS table carried by the model
AIRPORTS == {"DEL", "JAI"}

\* the codes requests are made with
RequestCodes == {"DEL", "del", "JAI", "jai", "ZZZ"}

\* String.prototype.toUpperCase on the request codes
toUpperCase(code) ==
    CASE code = "del" -> "DEL"
      [] code = "jai" -> "JAI"
      [] OTHER -> code

\* numWaypoints with the division rounded up
numWaypointsRoundedUp(distanceKm) == Max(5, (distanceKm + 49) \div 50)

numWaypoints(distanceKm) == Max(5, distanceKm \div 50)

\* the waypoint pushed in iteration i (0-based) of the loop: its fraction
\* i / n as an exact ratio, and its time in ms after departure, truncated as
\* Date does: fraction * (distance / 800) * 60 * 60 * 1000, where
\* 60 * 60 * 1000 / 800 = 4500
WaypointAt(idx, n, distanceKm) ==
    [fraction |-> <<idx, n>>,
     time     |-> (idx * distanceKm * 4500) \div n]

\* PathWaypoints with the loop left after its first iteration
PathWaypointsDepartureOnly(distanceKm) ==
    LET n == numWaypoints(distanceKm)
    IN  [k \in 1..1 |-> WaypointAt(k - 1, n, distanceKm)]

\* the array the loop of calculateFlightPath builds: i = 0 .. numWaypoints
PathWaypoints(distanceKm) ==
    LET n == numWaypoints(distanceKm)
    IN  [k \in 1..(n + 1) |-> WaypointAt(k - 1, n, distanceKm)]

\* the distances a route between the two codes may have: none between
\* identical airports, any whole number of km otherwise
RouteDistances(fromCode, toCode) ==
    IF toUpperCase(fromCode) = toUpperCase(toCode) THEN {0}
    ELSE 1..MaxDistanceKm

----------------------------------------------------------------------------
(* The great-circle interpolators: interpolateGreatCircle of
   enhancedSunAnalysisService.ts and calculateGreatCircle of
   flightPathService.ts.  Points lie on one great circle, the equator, so
   that the point at fraction f between two of them is known exactly; lon is
   the longitude in degrees times FractionSteps. *)

Point(lon) == [defined |-> TRUE, nan |-> FALSE, lon |-> lon]

\* [NaN, NaN]
NaNPoint == [defined |-> TRUE, nan |-> TRUE, lon |-> 0]

NoPoint == [defined |-> FALSE]

\* the airports' longitudes, in degrees
Longitudes == {0, 10, 20, 30}

\* d of both interpolators, in degrees times FractionSteps
CentralAngle(a, b) ==
    IF a.lon >= b.lon THEN a.lon - b.lon ELSE b.lon - a.lon

\* the common body of both interpolators: sin((1 - f) d) / sin(d) and
\* sin(f d) / sin(d) are 0 / 0 = NaN when d = 0, and every coordinate
\* computed from them is NaN; otherwise the result is the point at angle
\* f d from a towards b
SphericalInterpolation(a, b, f) ==
    IF CentralAngle(a, b) = 0 THEN NaNPoint
    ELSE Point(a.lon + (f * (b.lon - a.lon)) \div FractionSteps)

\* f is fraction * FractionSteps
interpolateGreatCircle(a, b, f) ==
    IF f <= 0 THEN a
    ELSE IF f >= FractionSteps THEN b
    ELSE SphericalInterpolation(a, b, f)

calculateGreatCircle(a, b, f) == SphericalInterpolation(a, b, f)

----------------------------------------------------------------------------
(* routeHandler.ts, and analyzeFlightSunConditions of
   enhancedSunAnalysisService.ts as it calls it *)

\* req.query: a parameter that is absent is ""
NoRequest == [from |-> "", to |-> "", depart |-> "", duration |-> ""]

\* the depart parameters: absent, not a date, a date
DepartParams == {"", "tomorrow", "2025-08-01T18:00"}

\* isNaN(new Date(depart).getTime()) is false
ParsesAsDate(depart) == depart = "2025-08-01T18:00"

\* the duration parameters (hours): absent, zero, a quarter of an hour
DurationParams == {"", "0", "0.25"}

\* parseFloat(duration) * 60
DurationMinutes(duration) ==
    CASE duration = "0.25" -> intervalMinutes
      [] OTHER -> 0

\* line 41: flightDuration is truthy
HasDuration(duration) == duration # "" /\ DurationMinutes(duration) # 0

\* the test of line 12 without the depart parameter
MissingParametersNoDepart(req) == req.from = "" \/ req.to = ""

\* line 12: !from || !to || !depart
MissingParameters(req) == req.from = "" \/ req.to = "" \/ req.depart = ""

RECURSIVE DetectFrom(_, _, _)
DetectFrom(ev, analysis, k) ==
    IF k > Len(analysis) THEN ev
    ELSE DetectFrom(DetectIteration(ev, analysis, k), analysis, k + 1)

\* detectSunEvents: the loop over all samples
detectSunEvents(analysis) == DetectFrom(InitEvents, analysis, 1)

\* analyzeFlightSunConditions with the codes as given (no change of case),
\* for samples of the given elevations
analyzeFlightSunConditions(fromCode, toCode, total, elevation, bearing) ==
    IF fromCode \notin AIRPORTS \/ toCode \notin AIRPORTS
    THEN [throws |-> TRUE, report |-> NoReport]
    ELSE LET n == Cardinality(SamplingMinutes(total))
             analysis ==
                 [k \in 1..n |-> SunConditionAt(k, total, elevation[k])]
         IN  [throws |-> FALSE,
              report |->
                 generateFlightSunReport(detectSunEvents(analysis),
                                         analysis, bearing).report]

\* the payload of lines 65-74
FallbackAnalysis ==
    [built             |-> FALSE,
     willSeeSunrise    |-> FALSE,
     willSeeSunset     |-> FALSE,
     willSeeNight      |-> FALSE,
     willSeeGoldenHour |-> FALSE,
     summary           |-> <<Line("REQUIRES_DURATION", 0)>>,
     recommendations   |-> <<>>,
     seatSuggestion    |-> "either",
     timeline          |-> <<>>]

NoResponse == [status |-> 0]

\* res.status(status).json({error, message})
ErrorResponse(status, errorCode, message) ==
    [status |-> status, error |-> errorCode, message |-> message,
     path |-> <<>>, sunPositions |-> <<>>, recommendation |-> "none",
     enhancedAnalysis |-> NoReport]

\* SunCalc on a waypoint [NaN, NaN]: azimuth and altitude are NaN, which
\* fails 'elevation > 0' as the altitude 0 carried here does
NaNSunCalc == [azimuth |-> 0, altitude |-> 0]

NoEnv ==
    [distance |-> 0, atan2Deg |-> 0, sun |-> NaNSunCalc, elevation |-> <<>>]

\* does the request reach the services?
ReachesPipeline(req) ==
    /\ ~MissingParameters(req)
    /\ ParsesAsDate(req.depart)
    /\ toUpperCase(req.from) \in AIRPORTS
    /\ toUpperCase(req.to) \in AIRPORTS

\* what geometry and solar engine may give for a request: between identical
\* airports the distance is 0 and the waypoints are [NaN, NaN]; the samples
\* of the enhanced analysis exist when a duration is given
Envs(req) ==
    IF ~ReachesPipeline(req) THEN {NoEnv}
    ELSE LET n == IF HasDuration(req.duration)
                  THEN Cardinality(
                           SamplingMinutes(DurationMinutes(req.duration)))
                  ELSE 0
         IN  IF toUpperCase(req.from) = toUpperCase(req.to)
             THEN {[distance |-> 0, atan2Deg |-> 0, sun |-> NaNSunCalc,
                    elevation |-> el] : el \in [1..n -> Elevations]}
             ELSE {[distance |-> d, atan2Deg |-> a, sun |-> sc,
                    elevation |-> el] :
                      d \in {MaxDistanceKm \div 2, MaxDistanceKm},
                      a \in {-90, 45},
                      sc \in [azimuth : {-90, 45}, altitude : {-5, 40}],
                      el \in [1..n -> Elevations]}

\* routeHandler: the response and the services called
routeHandler(req, e) ==
    IF MissingParameters(req)
    THEN [response |-> ErrorResponse(400, "MISSING_PARAMETERS", <<>>),
          calls |-> <<>>]
    ELSE IF ~ParsesAsDate(req.depart)
    THEN [response |-> ErrorResponse(400, "INVALID_DEPARTURE_TIME", <<>>),
          calls |-> <<>>]
    ELSE IF \/ toUpperCase(req.from) \notin AIRPORTS
            \/ toUpperCase(req.to) \notin AIRPORTS
    THEN [response |->
             ErrorResponse(500, "INTERNAL_SERVER_ERROR",
                           <<"AIRPORT_NOT_FOUND", req.from, req.to>>),
          calls |-> <<"calculateFlightPath">>]
    ELSE LET flightPath_ == PathWaypoints(e.distance)
             sunPositions_ ==
                 calculateSunPositions(
                     [k \in 1..Len(flightPath_) |-> e.sun])
             recommendation_ ==
                 getSeatRecommendation(
                     sunPositions_,
                     [length |-> Len(flightPath_), atan2Deg |-> e.atan2Deg])
             analysis ==
                 analyzeFlightSunConditions(
                     req.from, req.to, DurationMinutes(req.duration),
                     e.elevation, calculateBearing(e.atan2Deg))
             \* lines 40-59: null unless the analysis ran and returned
             enhancedAnalysis_ ==
                 IF HasDuration(req.duration) /\ ~analysis.throws
                 THEN analysis.report ELSE NoReport
         IN  [response |->
                 [status |-> 200, error |-> "", message |-> <<>>,
                  path |-> flightPath_,
                  sunPositions |-> sunPositions_,
                  recommendation |-> recommendation_,
                  enhancedAnalysis |->
                     IF enhancedAnalysis_ = NoReport THEN FallbackAnalysis
                     ELSE enhancedAnalysis_],
              calls |->
                 <<"calculateFlightPath", "calculateSunPositions",
                   "getSeatRecommendation">>
                 \o (IF HasDuration(req.duration)
                     THEN <<"analyzeFlightSunConditions">> ELSE <<>>)]

----------------------------------------------------------------------------
(* App.tsx: the App component *)

\* the codes of the in-page AIRPORTS table carried by the model
AppAirports == {"DEL", "BOM", "BLR"}

\* the initial values of the four form fields; an empty flightDuration
\* ('') is 0 here, both being falsy
EmptyForm ==
    [fromAirport |-> "", toAirport |-> "", departureTime |-> "",
     flightDuration |-> 0]

\* the values the form fields take
FormValues ==
    [fromAirport    : {"", "DEL", "ZZZ"},
     toAirport      : {"", "DEL", "BOM", "BLR"},
     departureTime  : {"", "tomorrow", "2025-08-01T18:00"},
     flightDuration : {0, 29, 30, 24 * 60 + 1}]

NoFlightData == [present |-> FALSE]

\* the FlightData of generateSimplifiedFlightAnalysis, by its inputs
FlightDataOf(f) ==
    [present |-> TRUE, fromAirport |-> f.fromAirport,
     toAirport |-> f.toAirport, flightDuration |-> f.flightDuration]

\* generateSimplifiedFlightAnalysis throws: a code is not in AIRPORTS, or
\* toISOString is applied to an invalid Date
AnalysisThrows(f) ==
    \/ f.fromAirport \notin AppAirports
    \/ f.toAirport \notin AppAirports
    \/ f.departureTime # "2025-08-01T18:00"

\* handleSubmit without the test of lines 3464-3468
handleSubmitAnyAirports(app, f) ==
    IF \/ f.fromAirport = "" \/ f.toAirport = ""
       \/ f.departureTime = "" \/ f.flightDuration = 0
    THEN [app EXCEPT !.error = "FILL_ALL_DETAILS", !.loading = FALSE]
    ELSE IF f.flightDuration < 30 \/ f.flightDuration > 1440
    THEN [app EXCEPT !.error = "DURATION_RANGE", !.loading = FALSE]
    ELSE IF AnalysisThrows(f)
    THEN [app EXCEPT !.error = "UNABLE_TO_GENERATE", !.loading = FALSE]
    ELSE [currentPage |-> "RESULTS", flightData |-> FlightDataOf(f),
          error |-> "", loading |-> FALSE]

\* handleSubmit on the state app = [currentPage, flightData, error, loading]
\* and the form f: the state once it has returned
handleSubmit(app, f) ==
    IF \/ f.fromAirport = "" \/ f.toAirport = ""
       \/ f.departureTime = "" \/ f.flightDuration = 0
    THEN [app EXCEPT !.error = "FILL_ALL_DETAILS", !.loading = FALSE]
    ELSE IF f.fromAirport = f.toAirport
    THEN [app EXCEPT !.error = "SAME_AIRPORTS", !.loading = FALSE]
    ELSE IF f.flightDuration < 30 \/ f.flightDuration > 1440
    THEN [app EXCEPT !.error = "DURATION_RANGE", !.loading = FALSE]
    ELSE IF AnalysisThrows(f)
    THEN [app EXCEPT !.error = "UNABLE_TO_GENERATE", !.loading = FALSE]
    ELSE [currentPage |-> "RESULTS", flightData |-> FlightDataOf(f),
          error |-> "", loading |-> FALSE]

----------------------------------------------------------------------------
(* Idle values: what a specification leaves the other components at *)

IdleSun ==
    /\ totalMinutes = 0
    /\ sunAnalysis = <<>>
    /\ i = 0
    /\ events = InitEvents
    /\ report = NoReport

IdleSeat ==
    /\ sunCalc = <<>>
    /\ sunPositions = <<>>
    /\ flightPath = [length |-> 0, atan2Deg |-> 0]
    /\ recommendation = "none"

IdleSide ==
    /\ route = [known |-> FALSE, atan2Deg |-> 0]
    /\ enhancedAnalysis = NoReport
    /\ backendSunrise = "none"
    /\ backendSunset = "none"
    /\ seatSuggestion = "none"
    /\ leftViews = NoViews
    /\ rightViews = NoViews

IdleSweep ==
    /\ sweepElevation = 0
    /\ sweepCondition = "none"
    /\ prevCondition = "none"

IdleClock ==
    /\ timeAtWaypoint = [hour |-> 0, minute |-> 0]
    /\ random = 0
    /\ sunPosition = NoSunPosition

IdleBasic ==
    /\ departureTime = [hour |-> 0, minute |-> 0]
    /\ flightDuration = 0
    /\ basicAnalysis = NoReport

IdlePath ==
    /\ fromAirport = ""
    /\ toAirport = ""
    /\ distance = 0
    /\ waypoints = <<>>
    /\ pathStatus = "none"

IdleCircle ==
    /\ from = NoPoint
    /\ to = NoPoint
    /\ fraction = 0
    /\ interpolated = NoPoint
    /\ greatCircle = NoPoint

IdleHandler ==
    /\ request = NoRequest
    /\ env = NoEnv
    /\ response = NoResponse
    /\ calls = <<>>

IdleTwice ==
    /\ invocationTime = [hour |-> 0, minute |-> 0]
    /\ draws = <<>>
    /\ samples = <<>>

IdleApp ==
    /\ currentPage = "SEARCH"
    /\ form = EmptyForm
    /\ flightData = NoFlightData
    /\ error = ""
    /\ loading = FALSE

IdleOthersSun ==
    /\ IdleSeat /\ IdleSide /\ IdleSweep /\ IdleClock
    /\ IdleBasic /\ IdlePath /\ IdleCircle /\ IdleHandler
    /\ IdleTwice /\ IdleApp

IdleOthersSeat ==
    /\ IdleSun /\ IdleSide /\ IdleSweep /\ IdleClock
    /\ IdleBasic /\ IdlePath /\ IdleCircle /\ IdleHandler
    /\ IdleTwice /\ IdleApp

IdleOthersSide ==
    /\ IdleSun /\ IdleSeat /\ IdleSweep /\ IdleClock
    /\ IdleBasic /\ IdlePath /\ IdleCircle /\ IdleHandler
    /\ IdleTwice /\ IdleApp

IdleOthersSweep ==
    /\ IdleSun /\ IdleSeat /\ IdleSide /\ IdleClock
    /\ IdleBasic /\ IdlePath /\ IdleCircle /\ IdleHandler
    /\ IdleTwice /\ IdleApp

IdleOthersClock ==
    /\ IdleSun /\ IdleSeat /\ IdleSide /\ IdleSweep
    /\ IdleBasic /\ IdlePath /\ IdleCircle /\ IdleHandler
    /\ IdleTwice /\ IdleApp

IdleOthersBasic ==
    /\ IdleSun /\ IdleSeat /\ IdleSide /\ IdleSweep
    /\ IdleClock /\ IdlePath /\ IdleCircle /\ IdleHandler
    /\ IdleTwice /\ IdleApp

IdleOthersPath ==
    /\ IdleSun /\ IdleSeat /\ IdleSide /\ IdleSweep
    /\ IdleClock /\ IdleBasic /\ IdleCircle /\ IdleHandler
    /\ IdleTwice /\ IdleApp

IdleOthersCircle ==
    /\ IdleSun /\ IdleSeat /\ IdleSide /\ IdleSweep
    /\ IdleClock /\ IdleBasic /\ IdlePath /\ IdleHandler
    /\ IdleTwice /\ IdleApp

IdleOthersHandler ==
    /\ IdleSun /\ IdleSeat /\ IdleSide /\ IdleSweep
    /\ IdleClock /\ IdleBasic /\ IdlePath /\ IdleCircle
    /\ IdleTwice /\ IdleApp

IdleOthersTwice ==
    /\ IdleSun /\ IdleSeat /\ IdleSide /\ IdleSweep
    /\ IdleClock /\ IdleBasic /\ IdlePath /\ IdleCircle
    /\ IdleHandler /\ IdleApp

IdleOthersApp ==
    /\ IdleSun /\ IdleSeat /\ IdleSide /\ IdleSweep
    /\ IdleClock /\ IdleBasic /\ IdlePath /\ IdleCircle
    /\ IdleHandler /\ IdleTwice


----------------------------------------------------------------------------
(* SpecSun: backend analyzeFlightSunConditions *)

InitSun ==
    /\ pc = "sample"
    /\ totalMinutes \in TotalMinutesSamples
    /\ sunAnalysis = <<>>
    /\ i = 0
    /\ events = InitEvents
    /\ report = NoReport
    /\ IdleOthersSun

\* generateFlightSamplingPoints followed by analyzeSunConditions: one sample
\* per 15 minutes, each with the elevation the solar engine reports
AnalyzeSunConditions ==
    /\ pc = "sample"
    /\ LET n == Cardinality(SamplingMinutes(totalMinutes))
       IN  \E elevation \in [1..n -> Elevations] :
              sunAnalysis' =
                 [k \in 1..n |->
                    SunConditionAt(k, totalMinutes, elevation[k])]
    /\ i' = 1
    /\ events' = InitEvents
    /\ pc' = "detect"
    /\ UNCHANGED <<totalMinutes, report, othersSun>>

\* one iteration of the for loop of detectSunEvents
DetectStep ==
    /\ pc = "detect"
    /\ i <= Len(sunAnalysis)
    /\ events' = DetectIteration(events, sunAnalysis, i)
    /\ i' = i + 1
    /\ UNCHANGED <<pc, totalMinutes, sunAnalysis, report, othersSun>>

\* detectSunEvents returns events
DetectReturn ==
    /\ pc = "detect"
    /\ i > Len(sunAnalysis)
    /\ pc' = "report"
    /\ UNCHANGED <<varsSun, othersSun>>

\* generateFlightSunReport for the route of the request
GenerateReport ==
    /\ pc = "report"
    /\ \E a \in RouteAtan2Samples :
          LET out == generateFlightSunReport(events, sunAnalysis,
                                             calculateBearing(a))
          IN  /\ events' = out.events
              /\ report' = out.report
    /\ pc' = "done"
    /\ UNCHANGED <<totalMinutes, sunAnalysis, i, othersSun>>

NextSun ==
    \/ AnalyzeSunConditions
    \/ DetectStep
    \/ DetectReturn
    \/ GenerateReport

SpecSun == InitSun /\ [][NextSun]_vars

----------------------------------------------------------------------------
(* SpecSeat: backend calculateSunPositions, getSeatRecommendation *)

InitSeat ==
    /\ pc = "sun"
    /\ sunCalc \in SunCalcResults
    /\ sunPositions = <<>>
    /\ flightPath \in FlightPaths
    /\ recommendation = "none"
    /\ IdleOthersSeat

CalculateSunPositions ==
    /\ pc = "sun"
    /\ sunPositions' = calculateSunPositions(sunCalc)
    /\ pc' = "seat"
    /\ UNCHANGED <<sunCalc, flightPath, recommendation, othersSeat>>

GetSeatRecommendation ==
    /\ pc = "seat"
    /\ recommendation' = getSeatRecommendation(sunPositions, flightPath)
    /\ pc' = "done"
    /\ UNCHANGED <<sunCalc, sunPositions, flightPath, othersSeat>>

NextSeat ==
    \/ CalculateSunPositions
    \/ GetSeatRecommendation

SpecSeat == InitSeat /\ [][NextSeat]_vars

----------------------------------------------------------------------------
(* SpecSide: the event-based seat side, backend and in-page *)

InitSide ==
    /\ pc = "side"
    /\ route \in Routes
    /\ enhancedAnalysis \in AnalysisFlags
    /\ backendSunrise = "none"
    /\ backendSunset = "none"
    /\ seatSuggestion = "none"
    /\ leftViews = NoViews
    /\ rightViews = NoViews
    /\ IdleOthersSide

\* backend: called by generateFlightSunReport once the airports were found
DetermineSeatSideForSunrise ==
    /\ pc = "side"
    /\ route.known
    /\ backendSunrise = "none"
    /\ backendSunrise' =
          determineSeatSideForSunrise(calculateBearing(route.atan2Deg))
    /\ UNCHANGED <<pc, route, enhancedAnalysis, backendSunset, seatSuggestion,
                   leftViews, rightViews, othersSide>>

DetermineSeatSideForSunset ==
    /\ pc = "side"
    /\ route.known
    /\ backendSunset = "none"
    /\ backendSunset' =
          determineSeatSideForSunset(calculateBearing(route.atan2Deg))
    /\ UNCHANGED <<pc, route, enhancedAnalysis, backendSunrise, seatSuggestion,
                   leftViews, rightViews, othersSide>>

\* in-page: called by generateBasicSunAnalysis with the flags of its report
DetermineSeatSuggestion ==
    /\ pc = "side"
    /\ enhancedAnalysis.built
    /\ seatSuggestion = "none"
    /\ seatSuggestion' =
          determineSeatSuggestion(route.known,
                                  calculateBearing(route.atan2Deg),
                                  enhancedAnalysis.willSeeSunrise,
                                  enhancedAnalysis.willSeeSunset)
    /\ UNCHANGED <<pc, route, enhancedAnalysis, backendSunrise, backendSunset,
                   leftViews, rightViews, othersSide>>

\* in-page: the left seat card
GetLeftViews ==
    /\ pc = "side"
    /\ leftViews = NoViews
    /\ leftViews' =
          getSideSpecificViews(route.known, calculateBearing(route.atan2Deg),
                               "left", enhancedAnalysis)
    /\ UNCHANGED <<pc, route, enhancedAnalysis, backendSunrise, backendSunset,
                   seatSuggestion, rightViews, othersSide>>

\* in-page: the right seat card
GetRightViews ==
    /\ pc = "side"
    /\ rightViews = NoViews
    /\ rightViews' =
          getSideSpecificViews(route.known, calculateBearing(route.atan2Deg),
                               "right", enhancedAnalysis)
    /\ UNCHANGED <<pc, route, enhancedAnalysis, backendSunrise, backendSunset,
                   seatSuggestion, leftViews, othersSide>>

NextSide ==
    \/ DetermineSeatSideForSunrise
    \/ DetermineSeatSideForSunset
    \/ DetermineSeatSuggestion
    \/ GetLeftViews
    \/ GetRightViews

SpecSide == InitSide /\ [][NextSide]_vars

----------------------------------------------------------------------------
(* SpecSweep: classifySunCondition as the elevation rises from -90 to 90 *)

InitSweep ==
    /\ pc = "sweep"
    /\ sweepElevation = -90
    /\ sweepCondition = classifySunCondition(-90)
    /\ prevCondition = classifySunCondition(-90)
    /\ IdleOthersSweep

\* classify the elevation one degree higher
SweepStep ==
    /\ pc = "sweep"
    /\ sweepElevation < 90
    /\ sweepElevation' = sweepElevation + 1
    /\ prevCondition' = sweepCondition
    /\ sweepCondition' = classifySunCondition(sweepElevation + 1)
    /\ UNCHANGED <<pc, othersSweep>>

NextSweep == SweepStep

SpecSweep == InitSweep /\ [][NextSweep]_vars

----------------------------------------------------------------------------
(* SpecClock: the in-page sun sample of one waypoint *)

InitClock ==
    /\ pc = "clock"
    /\ timeAtWaypoint \in [hour : 0..23, minute : 0..59]
    /\ random \in 0..(RandomSteps - 1)
    /\ sunPosition = NoSunPosition
    /\ IdleOthersClock

\* the callback of path.map for one waypoint
ComputeSunPosition ==
    /\ pc = "clock"
    /\ ~sunPosition.computed
    /\ sunPosition' = SunPositionAt(timeAtWaypoint.hour,
                                    timeAtWaypoint.minute, random)
    /\ UNCHANGED <<pc, timeAtWaypoint, random, othersClock>>

NextClock == ComputeSunPosition

SpecClock == InitClock /\ [][NextClock]_vars

----------------------------------------------------------------------------
(* SpecBasic: the in-page generateBasicSunAnalysis *)

InitBasic ==
    /\ pc = "basic"
    /\ departureTime \in [hour : 0..23, minute : 0..59]
    /\ flightDuration \in FlightDurations
    /\ basicAnalysis = NoReport
    /\ IdleOthersBasic

\* generateBasicSunAnalysis as generateSimplifiedFlightAnalysis calls it,
\* after both airports were found
GenerateBasicSunAnalysis ==
    /\ pc = "basic"
    /\ ~basicAnalysis.built
    /\ \E a \in RouteAtan2Samples :
          basicAnalysis' =
             generateBasicSunAnalysis(TRUE, calculateBearing(a),
                                      departureTime.hour,
                                      departureTime.minute, flightDuration)
    /\ UNCHANGED <<pc, departureTime, flightDuration, othersBasic>>

NextBasic == GenerateBasicSunAnalysis

SpecBasic == InitBasic /\ [][NextBasic]_vars

----------------------------------------------------------------------------
(* SpecPath: backend calculateFlightPath *)

InitPath ==
    /\ pc = "path"
    /\ fromAirport \in RequestCodes
    /\ toAirport \in RequestCodes
    /\ distance \in RouteDistances(fromAirport, toAirport)
    /\ waypoints = <<>>
    /\ pathStatus = "none"
    /\ IdleOthersPath

\* calculateFlightPath throws: a code is not in the table
FlightPathAirportNotFound ==
    /\ pc = "path"
    /\ pathStatus = "none"
    /\ \/ toUpperCase(fromAirport) \notin AIRPORTS
       \/ toUpperCase(toAirport) \notin AIRPORTS
    /\ pathStatus' = "throws"
    /\ UNCHANGED <<pc, fromAirport, toAirport, distance, waypoints,
                   othersPath>>

\* calculateFlightPath returns the waypoints
CalculateFlightPath ==
    /\ pc = "path"
    /\ pathStatus = "none"
    /\ toUpperCase(fromAirport) \in AIRPORTS
    /\ toUpperCase(toAirport) \in AIRPORTS
    /\ waypoints' = PathWaypoints(distance)
    /\ pathStatus' = "ok"
    /\ UNCHANGED <<pc, fromAirport, toAirport, distance, othersPath>>

NextPath ==
    \/ FlightPathAirportNotFound
    \/ CalculateFlightPath

SpecPath == InitPath /\ [][NextPath]_vars


----------------------------------------------------------------------------
(* SpecCircle: the two interpolators on the same points and fraction *)

InitCircle ==
    /\ pc = "circle"
    /\ from \in {Point(lon * FractionSteps) : lon \in Longitudes}
    /\ to \in {Point(lon * FractionSteps) : lon \in Longitudes}
    /\ fraction \in 0..FractionSteps
    /\ interpolated = NoPoint
    /\ greatCircle = NoPoint
    /\ IdleOthersCircle

\* generateFlightSamplingPoints calls interpolateGreatCircle
InterpolateGreatCircle ==
    /\ pc = "circle"
    /\ interpolated = NoPoint
    /\ interpolated' = interpolateGreatCircle(from, to, fraction)
    /\ UNCHANGED <<pc, from, to, fraction, greatCircle, othersCircle>>

\* calculateFlightPath calls calculateGreatCircle
CalculateGreatCircle ==
    /\ pc = "circle"
    /\ greatCircle = NoPoint
    /\ greatCircle' = calculateGreatCircle(from, to, fraction)
    /\ UNCHANGED <<pc, from, to, fraction, interpolated, othersCircle>>

NextCircle ==
    \/ InterpolateGreatCircle
    \/ CalculateGreatCircle

SpecCircle == InitCircle /\ [][NextCircle]_vars

----------------------------------------------------------------------------
(* SpecHandler: one request to routeHandler *)

InitHandler ==
    /\ pc = "handler"
    /\ request \in [from : RequestCodes \cup {""},
                    to : RequestCodes \cup {""},
                    depart : DepartParams, duration : DurationParams]
    /\ env \in Envs(request)
    /\ response = NoResponse
    /\ calls = <<>>
    /\ IdleOthersHandler

\* the request is answered
RouteHandler ==
    /\ pc = "handler"
    /\ response = NoResponse
    /\ LET out == routeHandler(request, env)
       IN  /\ response' = out.response
           /\ calls' = out.calls
    /\ UNCHANGED <<pc, request, env, othersHandler>>

NextHandler == RouteHandler

SpecHandler == InitHandler /\ [][NextHandler]_vars

----------------------------------------------------------------------------
(* SpecTwice: the sunPositions callback invoked twice on the same waypoint
   time *)

InitTwice ==
    /\ pc = "twice"
    /\ invocationTime \in [hour : 0..23, minute : {0, 30}]
    /\ draws \in [1..2 -> 0..(RandomSteps - 1)]
    /\ samples = <<>>
    /\ IdleOthersTwice

\* one more invocation, with its own draw of Math.random()
InvokeCallback ==
    /\ pc = "twice"
    /\ Len(samples) < 2
    /\ samples' =
          Append(samples,
                 SunPositionAt(invocationTime.hour, invocationTime.minute,
                               draws[Len(samples) + 1]))
    /\ UNCHANGED <<pc, invocationTime, draws, othersTwice>>

NextTwice == InvokeCallback

SpecTwice == InitTwice /\ [][NextTwice]_vars

----------------------------------------------------------------------------
(* SpecApp: the pages of App *)

InitApp ==
    /\ pc = "app"
    /\ currentPage = "SEARCH"
    /\ form = EmptyForm
    /\ flightData = NoFlightData
    /\ error = ""
    /\ loading = FALSE
    /\ IdleOthersApp

\* the user edits one field of the search form
SetFormField ==
    /\ pc = "app"
    /\ currentPage = "SEARCH"
    /\ \E f \in FormValues :
          /\ Cardinality({x \in DOMAIN form : f[x] # form[x]}) = 1
          /\ form' = f
    /\ UNCHANGED <<pc, currentPage, flightData, error, loading, othersApp>>

\* the search form is submitted
HandleSubmit ==
    /\ pc = "app"
    /\ currentPage = "SEARCH"
    /\ LET app == handleSubmit([currentPage |-> currentPage,
                                flightData |-> flightData,
                                error |-> "", loading |-> TRUE], form)
       IN  /\ currentPage' = app.currentPage
           /\ flightData' = app.flightData
           /\ error' = app.error
           /\ loading' = app.loading
    /\ UNCHANGED <<pc, form, othersApp>>

\* onBack of the results and experience pages
GoBackToSearch ==
    /\ pc = "app"
    /\ currentPage \in {"RESULTS", "EXPERIENCE"}
    /\ currentPage' = "SEARCH"
    /\ error' = ""
    /\ UNCHANGED <<pc, form, flightData, loading, othersApp>>

\* a click in Navigation, which is shown on the search page and has the
\* buttons SEARCH and EXPERIENCE
HandlePageChange ==
    /\ pc = "app"
    /\ currentPage = "SEARCH"
    /\ \E page \in {"SEARCH", "EXPERIENCE"} : currentPage' = page
    /\ error' = ""
    /\ UNCHANGED <<pc, form, flightData, loading, othersApp>>

NextApp ==
    \/ SetFormField
    \/ HandleSubmit
    \/ GoBackToSearch
    \/ HandlePageChange

SpecApp == InitApp /\ [][NextApp]_vars

----------------------------------------------------------------------------
(* Properties of the backend enhanced analysis *)

\* indices k > 1 of analysis at which the elevation rises above the horizon
SunriseCrossings(analysis) ==
    {k \in 2..Len(analysis) :
        analysis[k - 1].sunElevation <= 0 /\ analysis[k].sunElevation > 0}

\* indices k > 1 of analysis at which the elevation falls to the horizon
SunsetCrossings(analysis) ==
    {k \in 2..Len(analysis) :
        analysis[k - 1].sunElevation > 0 /\ analysis[k].sunElevation <= 0}

MinOf(S) == CHOOSE m \in S : \A n \in S : m <= n

\* C1: once detectSunEvents has returned, the recorded sunrise (sunset) event
\* is that of the first sunrise (sunset) crossing of the sample sequence;
\* later crossings of the same kind do not change it.
C1_FirstCrossingKept ==
    pc = "report" =>
        /\ SunriseCrossings(sunAnalysis) # {} =>
              events.sunrise =
                 SunEventOf(sunAnalysis[MinOf(SunriseCrossings(sunAnalysis))])
        /\ SunsetCrossings(sunAnalysis) # {} =>
              events.sunset =
                 SunEventOf(sunAnalysis[MinOf(SunsetCrossings(sunAnalysis))])

\* C2: in the report returned by analyzeFlightSunConditions, willSeeSunrise
\* and willSeeSunset together imply willSeeNight.
C2_DayImpliesNight ==
    pc = "done" =>
        (report.willSeeSunrise /\ report.willSeeSunset => report.willSeeNight)

\* a returned report of a flight on which both events were detected
C2_Witness ==
    /\ pc = "done"
    /\ report.willSeeSunrise
    /\ report.willSeeSunset
    /\ report.willSeeNight
    /\ \A k \in 1..Len(sunAnalysis) : sunAnalysis[k].condition # "NIGHT"

----------------------------------------------------------------------------
(* Properties of the backend seat recommendation *)

\* indices of the sun positions with elevation strictly between 0 and 80
VisibleIndices ==
    {k \in 1..Len(sunPositions) :
        sunPositions[k].elevation > 0 /\ sunPositions[k].elevation < 80}

RECURSIVE SumOver(_, _)
SumOver(f, S) ==
    IF S = {} THEN 0
    ELSE LET k == CHOOSE x \in S : TRUE
         IN  f[k] + SumOver(f, S \ {k})

C5_NorthReferenced ==
    (pc = "done" /\ recommendation \in {"left", "right"}) =>
        \A k \in VisibleIndices :
            (sunPositions[k].azimuth - (sunCalc[k].azimuth + 180)) % 360 = 0

----------------------------------------------------------------------------
(* Properties of the event-based seat side *)

\* the decision rule of recommendSeat for a sun at a fixed bearing
RuleSide(sunBearing, flightBearing) ==
    IF (sunBearing - flightBearing) % 360 <= 180 THEN "left" ELSE "right"

\* C6: the event-based recommendation applies the rule of recommendSeat with
\* the sun fixed at 90 (sunrise) or 270 (sunset) degrees, in the backend
\* determineSeatSideForSunrise/Sunset and in the in-page
\* determineSeatSuggestion.
C6_SameRuleAsRecommendSeat ==
    LET b == calculateBearing(route.atan2Deg)
    IN  /\ backendSunrise # "none" => backendSunrise = RuleSide(90, b)
        /\ backendSunset # "none" => backendSunset = RuleSide(270, b)
        /\ (seatSuggestion # "none" /\ route.known) =>
              /\ enhancedAnalysis.willSeeSunrise =>
                    seatSuggestion = RuleSide(90, b)
              /\ (~enhancedAnalysis.willSeeSunrise
                  /\ enhancedAnalysis.willSeeSunset) =>
                    seatSuggestion = RuleSide(270, b)

Flagged(e) ==
    IF e = "sunrise" THEN enhancedAnalysis.willSeeSunrise
    ELSE enhancedAnalysis.willSeeSunset

\* C7: for a route with a bearing, an event flagged in the report is visible
\* from exactly one side, an event not flagged from neither, and when exactly
\* one event is flagged that side is the one determineSeatSuggestion returns.
C7_SidePartition ==
    (route.known /\ enhancedAnalysis.built
     /\ leftViews.computed /\ rightViews.computed) =>
        \A e \in {"sunrise", "sunset"} :
            /\ Flagged(e) => (leftViews[e] # rightViews[e])
            /\ ~Flagged(e) => (~leftViews[e] /\ ~rightViews[e])
            /\ (seatSuggestion # "none" /\ Flagged(e)
                /\ \A o \in {"sunrise", "sunset"} \ {e} : ~Flagged(o)) =>
                  \/ seatSuggestion = "left" /\ leftViews[e]
                  \/ seatSuggestion = "right" /\ rightViews[e]

\* a sunset-only report on a route whose sunset is seen from the right seats
C7_Witness ==
    /\ route.known
    /\ enhancedAnalysis.built
    /\ enhancedAnalysis.willSeeSunset /\ ~enhancedAnalysis.willSeeSunrise
    /\ leftViews.computed /\ rightViews.computed
    /\ seatSuggestion = "right"
    /\ rightViews.sunset /\ ~leftViews.sunset

----------------------------------------------------------------------------
(* Properties of the classifiers *)

\* C8: classifySunCondition partitions the elevations at 0, 6 and 10: NIGHT
\* below 0, TWILIGHT in [0, 6), GOLDEN_HOUR in [6, 10), DAYLIGHT from 10; as
\* the elevation rises the condition changes only on reaching 0, 6 and 10.
C8_ElevationPartition ==
    pc = "sweep" =>
        /\ (sweepCondition = "NIGHT") <=> (sweepElevation < 0)
        /\ (sweepCondition = "TWILIGHT") <=>
              (0 <= sweepElevation /\ sweepElevation < 6)
        /\ (sweepCondition = "GOLDEN_HOUR") <=>
              (6 <= sweepElevation /\ sweepElevation < 10)
        /\ (sweepCondition = "DAYLIGHT") <=> (sweepElevation >= 10)
        /\ (sweepElevation > -90) =>
              ((prevCondition # sweepCondition) <=>
                  (sweepElevation \in {0, 6, 10}))

\* the sweep reaches 6 degrees, where TWILIGHT gives way to GOLDEN_HOUR
C8_Witness ==
    /\ pc = "sweep"
    /\ sweepElevation = 6
    /\ prevCondition = "TWILIGHT"
    /\ sweepCondition = "GOLDEN_HOUR"

\* the ranges of the clock table, as the specification lists them
ClockTable ==
    {[from |-> 240, to |-> 299, condition |-> "GOLDEN_HOUR_BEFORE_SUNRISE"],
     [from |-> 300, to |-> 480, condition |-> "SUNRISE"],
     [from |-> 481, to |-> 1020, condition |-> "DAYLIGHT"],
     [from |-> 1021, to |-> 1079, condition |-> "GOLDEN_HOUR_BEFORE_SUNSET"],
     [from |-> 1080, to |-> 1140, condition |-> "SUNSET"],
     [from |-> 1141, to |-> 1439, condition |-> "NIGHT"],
     [from |-> 0, to |-> 239, condition |-> "NIGHT"]}

\* the (start, end) pairs the classifier tests
TestedRanges ==
    {<<SUNRISE_START, SUNRISE_END>>,
     <<GOLDEN_HOUR_BEFORE_SUNRISE_START, GOLDEN_HOUR_BEFORE_SUNRISE_END>>,
     <<SUNSET_START, SUNSET_END>>,
     <<GOLDEN_HOUR_BEFORE_SUNSET_START, GOLDEN_HOUR_BEFORE_SUNSET_END>>,
     <<SUN_VISIBLE_START, SUN_VISIBLE_END>>,
     <<NIGHT_START, NIGHT_END>>}

\* C9: the clock-bucket classifier gives every minute of the day the
\* condition of the table range that holds it; exactly one tested range
\* holds the minute (so the order of the tests does not matter) and the
\* fallback branch is not taken.
C9_ClockBuckets ==
    sunPosition.computed =>
        LET t == timeAtWaypoint.hour * 60 + timeAtWaypoint.minute
        IN  /\ \E row \in ClockTable :
                  /\ row.from <= t /\ t <= row.to
                  /\ sunPosition.condition = row.condition
            /\ Cardinality({range \in TestedRanges :
                               isTimeInRange(t, range[1], range[2])}) = 1
            /\ ClockBranch(t) # 7

\* a sample taken after midnight, in the part of NIGHT that wraps
C9_Witness ==
    /\ sunPosition.computed
    /\ timeAtWaypoint.hour = 2
    /\ sunPosition.condition = "NIGHT"

----------------------------------------------------------------------------
(* Properties of the in-page analysis and of the flight path *)

\* C3: in the report of generateBasicSunAnalysis, for every departure minute
\* of the day and every accepted duration, willSeeSunrise and willSeeSunset
\* together imply willSeeNight.
C3_BasicDayImpliesNight ==
    basicAnalysis.built =>
        (basicAnalysis.willSeeSunrise /\ basicAnalysis.willSeeSunset
            => basicAnalysis.willSeeNight)

\* C10 as claimed: calculateFlightPath returns max(5, floor(distance / 50))
\* waypoints.
C10_WaypointCountClaimed ==
    pathStatus = "ok" => Len(waypoints) = Max(5, distance \div 50)

\* C10 as amended: calculateFlightPath returns max(5, floor(distance / 50))
\* + 1 waypoints: the two ends of the route and the points between its
\* max(5, floor(distance / 50)) legs.
C10_WaypointCount ==
    pathStatus = "ok" => Len(waypoints) = Max(5, distance \div 50) + 1

\* a route long enough for the distance to decide the count
C10_Witness ==
    /\ pathStatus = "ok"
    /\ distance >= 350
    /\ Len(waypoints) = 8


----------------------------------------------------------------------------
(* Properties of the two samplers *)

\* C11: the waypoints calculateFlightPath returns are at least 5, the first
\* is timed at the departure, waypoint i at the departure plus
\* (i / n) * (distance / 800) hours, and the timestamps strictly increase.
C11_PathMonotonic ==
    pathStatus = "ok" =>
        /\ Len(waypoints) >= 5
        /\ waypoints[1].time = 0
        /\ \A k \in 1..Len(waypoints) :
              waypoints[k].time =
                 ((k - 1) * distance * 4500) \div numWaypoints(distance)
        /\ \A k \in 1..(Len(waypoints) - 1) :
              waypoints[k].time < waypoints[k + 1].time

\* C12: for a positive duration the samples of generateFlightSamplingPoints
\* are 15 minutes apart from the departure on, none later than the arrival,
\* and their progress strictly increases from 0 at the first sample to 100
\* percent at the last.
C12_SamplingCadence ==
    (pc # "sample" /\ totalMinutes > 0) =>
        /\ Len(sunAnalysis) >= 1
        /\ \A k \in 1..Len(sunAnalysis) :
              /\ sunAnalysis[k].time = (k - 1) * 15
              /\ sunAnalysis[k].time <= totalMinutes
        /\ \A k \in 1..(Len(sunAnalysis) - 1) :
              sunAnalysis[k].progressPercent[1]
                 < sunAnalysis[k + 1].progressPercent[1]
        /\ sunAnalysis[1].progressPercent[1] = 0
        /\ sunAnalysis[Len(sunAnalysis)].progressPercent[1]
              = 100 * sunAnalysis[Len(sunAnalysis)].progressPercent[2]

\* the boundary behaviour required of an interpolator that returned result
BoundaryKept(result) ==
    /\ fraction <= 0 => result = from
    /\ fraction >= FractionSteps => result = to
    /\ from = to => result = from

\* C13: in both interpolators fraction <= 0 returns from, fraction >= 1
\* returns to, and identical from and to return from for every fraction.
C13_InterpolationBoundary ==
    /\ interpolated.defined => BoundaryKept(interpolated)
    /\ greatCircle.defined => BoundaryKept(greatCircle)

----------------------------------------------------------------------------
(* Properties of routeHandler *)

Answered == response.status # 0

\* C14: a request with identical departure and arrival codes is rejected as
\* an input error before any service is called, and carries no path and no
\* report.
C14_SameAirportRejected ==
    (Answered /\ request.from # "" /\ request.from = request.to) =>
        /\ response.status = 400
        /\ calls = <<>>
        /\ response.path = <<>>
        /\ response.enhancedAnalysis = NoReport

\* C15: a well-formed request with a code that is not in the airport table
\* gets no path and no report, and a 4xx error whose message names both
\* codes.
C15_UnknownAirportIsClientError ==
    (/\ Answered
     /\ request.from # "" /\ request.to # ""
     /\ request.depart = "2025-08-01T18:00"
     /\ \/ toUpperCase(request.from) \notin AIRPORTS
        \/ toUpperCase(request.to) \notin AIRPORTS) =>
        /\ response.path = <<>>
        /\ response.enhancedAnalysis = NoReport
        /\ response.message = <<"AIRPORT_NOT_FOUND", request.from, request.to>>
        /\ response.status = 400

\* C16: a request with a duration gets the path, recommendation and
\* enhancedAnalysis of the same request with its codes in upper case.
C16_CaseInsensitive ==
    (Answered /\ request.duration = "0.25") =>
        LET upper == [request EXCEPT !.from = toUpperCase(@),
                                     !.to = toUpperCase(@)]
            other == routeHandler(upper, env).response
        IN  /\ response.status = other.status
            /\ response.path = other.path
            /\ response.recommendation = other.recommendation
            /\ response.enhancedAnalysis = other.enhancedAnalysis

\* C17: a successful response carries the fallback payload only when the
\* duration parameter was omitted.
C17_FallbackOnlyWithoutDuration ==
    (response.status = 200 /\ response.enhancedAnalysis = FallbackAnalysis)
        => request.duration = ""

\* C18: a request lacking from, to or depart, or whose depart is not a date,
\* is answered 400 with no service called; a lacking parameter is reported
\* before a depart that is not a date.
C18_BadRequest ==
    LET lacking == request.from = "" \/ request.to = ""
                   \/ request.depart = ""
    IN  (Answered /\ (lacking \/ request.depart # "2025-08-01T18:00")) =>
            /\ response.status = 400
            /\ calls = <<>>
            /\ response.path = <<>>
            /\ response.error = IF lacking THEN "MISSING_PARAMETERS"
                                ELSE "INVALID_DEPARTURE_TIME"

\* a request without arrival code whose depart is not a date either
C18_Witness ==
    /\ Answered
    /\ request.from = "DEL" /\ request.to = ""
    /\ request.depart = "tomorrow"
    /\ response.status = 400
    /\ response.error = "MISSING_PARAMETERS"

\* C19: getSeatRecommendation with a path of fewer than 2 points gives the
\* insufficient-path outcome, whatever the samples.
C19_InsufficientPath ==
    (pc = "done" /\ flightPath.length < 2) =>
        recommendation = "UNABLE_TO_DETERMINE_DIRECTION"

\* C20: in every successful response the path given to getSeatRecommendation
\* has at least 2 waypoints and the recommendation is 'left', 'right' or the
\* no-optimal-window-seat message.
C20_PathSufficient ==
    response.status = 200 =>
        /\ Len(response.path) >= 2
        /\ calls[3] = "getSeatRecommendation"
        /\ response.recommendation
              \in {"left", "right", "NO_OPTIMAL_WINDOW_SEAT"}

\* a successful response with a seat side, for a sun above the horizon
C20_Witness ==
    /\ response.status = 200
    /\ Len(response.path) >= 6
    /\ env.sun.altitude = 40
    /\ response.recommendation = "left"

----------------------------------------------------------------------------
(* Properties of the backend tallies and report *)

\* the number of samples whose condition is one of conditions
SamplesIn(conditions) ==
    Cardinality({k \in 1..Len(sunAnalysis) :
                    sunAnalysis[k].condition \in conditions})

\* C21: once detectSunEvents has processed the samples, nightMinutes is 15
\* times the number of NIGHT or TWILIGHT samples, dayMinutes 15 times the
\* DAYLIGHT ones, goldenHourMinutes 15 times the GOLDEN_HOUR ones, the three
\* add up to 15 times the number of samples, and willSeeNight and
\* willSeeGoldenHour say whether such a sample exists.
C21_TallyInvariant ==
    pc = "report" =>
        /\ events.nightMinutes = 15 * SamplesIn({"NIGHT", "TWILIGHT"})
        /\ events.dayMinutes = 15 * SamplesIn({"DAYLIGHT"})
        /\ events.goldenHourMinutes = 15 * SamplesIn({"GOLDEN_HOUR"})
        /\ events.nightMinutes + events.dayMinutes + events.goldenHourMinutes
              = 15 * Len(sunAnalysis)
        /\ events.willSeeNight <=> SamplesIn({"NIGHT", "TWILIGHT"}) > 0
        /\ events.willSeeGoldenHour <=> SamplesIn({"GOLDEN_HOUR"}) > 0

\* processed samples of three kinds, twilight among them
C21_Witness ==
    /\ pc = "report"
    /\ SamplesIn({"TWILIGHT"}) > 0
    /\ SamplesIn({"GOLDEN_HOUR"}) > 0
    /\ SamplesIn({"DAYLIGHT"}) > 0
    /\ events.nightMinutes = 15 * SamplesIn({"TWILIGHT"})

\* C24: whenever detectSunEvents has set willSeeSunrise or willSeeSunset it
\* has set willSeeNight, so generateFlightSunReport never estimates the
\* night duration: the events it is given are left as they are.
C24_CrossingImpliesNight ==
    /\ pc \in {"detect", "report", "done"} =>
          (events.willSeeSunrise \/ events.willSeeSunset
              => events.willSeeNight)
    /\ (pc = "report" /\ events.willSeeSunrise /\ events.willSeeSunset) =>
          ForceNight(events) = events
    /\ pc = "done" => events.nightMinutes = report.nightDuration

\* a sunset whose sample at the horizon is TWILIGHT, with no NIGHT sample
C24_Witness ==
    /\ pc = "done"
    /\ events.willSeeSunset
    /\ events.willSeeNight
    /\ SamplesIn({"NIGHT"}) = 0

\* C25: in the backend report seatSuggestion is 'either' exactly when both
\* or neither of sunrise and sunset were detected, and 'left' or 'right'
\* when exactly one was.
C25_SeatSuggestionEither ==
    pc = "done" =>
        LET both    == report.willSeeSunrise /\ report.willSeeSunset
            neither == ~report.willSeeSunrise /\ ~report.willSeeSunset
        IN  /\ (report.seatSuggestion = "either") <=> (both \/ neither)
            /\ ~(both \/ neither) =>
                  report.seatSuggestion \in {"left", "right"}

\* a report with a sunrise only and a side to see it from
C25_Witness ==
    /\ pc = "done"
    /\ report.willSeeSunrise /\ ~report.willSeeSunset
    /\ report.seatSuggestion = "left"

\* the lines of the summary that tell the hours of night flying
NightLines ==
    {k \in 1..Len(report.summary) :
        report.summary[k].line \in {"NIGHT", "NIGHT_ALSO"}}

\* C26: the summary of generateFlightSunReport has the night-flying line at
\* most once, and no other line twice.
C26_NightLineOnce ==
    pc = "done" =>
        /\ Cardinality(NightLines) <= 1
        /\ \A j, k \in 1..Len(report.summary) :
              report.summary[j] = report.summary[k] => j = k

\* C27: for a positive duration the durations of the report do not exceed
\* the flight.
C27_DurationsWithinFlight ==
    (pc = "done" /\ totalMinutes > 0) =>
        report.nightDuration + report.dayDuration <= totalMinutes

----------------------------------------------------------------------------
(* Properties of the in-page report and samples *)

\* some minute of the flight [departure, departure + duration] lies in the
\* clock range start..end (a range with end < start wraps past midnight)
FlightMeets(start, end) ==
    LET dep == departureTime.hour * 60 + departureTime.minute
    IN  \E t \in dep..(dep + flightDuration) :
            isTimeInRange(t % (24 * 60), start, end)

\* C23: each flag of generateBasicSunAnalysis is true exactly when a minute
\* of the flight lies in the clock range of its condition, the night range
\* that wraps past midnight included.
C23_FlagsAreOverlaps ==
    basicAnalysis.built =>
        /\ basicAnalysis.willSeeSunrise
              <=> FlightMeets(SUNRISE_START, SUNRISE_END)
        /\ basicAnalysis.willSeeSunset
              <=> FlightMeets(SUNSET_START, SUNSET_END)
        /\ basicAnalysis.willSeeNight
              <=> FlightMeets(NIGHT_START, NIGHT_END)
        /\ basicAnalysis.willSeeGoldenHour
              <=> \/ FlightMeets(GOLDEN_HOUR_BEFORE_SUNRISE_START,
                                 GOLDEN_HOUR_BEFORE_SUNRISE_END)
                  \/ FlightMeets(GOLDEN_HOUR_BEFORE_SUNSET_START,
                                 GOLDEN_HOUR_BEFORE_SUNSET_END)

\* C28: in the report of generateBasicSunAnalysis nightDuration lies between
\* 0 and the flight duration, dayDuration is not negative, and nightDuration
\* is 0 exactly when willSeeNight is false.
C28_BasicDurationsInRange ==
    basicAnalysis.built =>
        /\ 0 <= basicAnalysis.nightDuration
        /\ basicAnalysis.nightDuration <= flightDuration
        /\ basicAnalysis.dayDuration >= 0
        /\ (basicAnalysis.nightDuration = 0) <=> ~basicAnalysis.willSeeNight

\* C29: a sample of generateSimplifiedFlightAnalysis whose condition is NIGHT
\* has a negative elevation, and any other sample an elevation of 0 or more.
C29_ConditionMatchesElevation ==
    sunPosition.computed =>
        /\ sunPosition.condition = "NIGHT" => sunPosition.elevation[1] < 0
        /\ sunPosition.condition # "NIGHT" => sunPosition.elevation[1] >= 0

----------------------------------------------------------------------------
(* Properties of repeated invocations and of the App pages *)

\* C22: two invocations on identical inputs give identical outputs; for the
\* in-page pipeline, every sun sample has the same elevation and condition.
C22_SameInputsSameSamples ==
    Len(samples) = 2 => samples[1] = samples[2]

\* the submitted form fails validation or its analysis throws
SubmissionFails ==
    \/ form.fromAirport = "" \/ form.toAirport = ""
    \/ form.departureTime = "" \/ form.flightDuration = 0
    \/ form.fromAirport = form.toAirport
    \/ form.flightDuration < 30 \/ form.flightDuration > 1440
    \/ form.fromAirport \notin AppAirports
    \/ form.toAirport \notin AppAirports
    \/ form.departureTime = "tomorrow"

\* C30: currentPage is RESULTS only with flightData present and no error,
\* loading is false between handlers, and a failing submission leaves
\* currentPage and flightData as they were and sets error.
C30_ResultsNeedFlightData ==
    /\ [](pc = "app" =>
            /\ currentPage = "RESULTS" => (flightData.present /\ error = "")
            /\ ~loading)
    /\ [][(HandleSubmit /\ SubmissionFails) =>
            /\ currentPage' = currentPage
            /\ flightData' = flightData
            /\ error' # ""
            /\ ~loading']_vars

\* a failed submission on the search page after an earlier successful one
C30_Witness ==
    /\ pc = "app"
    /\ currentPage = "SEARCH"
    /\ flightData.present
    /\ error = "SAME_AIRPORTS"

============================================================================
